---- MODULE Spec2Model ----
(***************************************************************************)
(* Model of the mock-interview session (InterviewSession component) and    *)
(* of the AudioService it drives.                                          *)
(*                                                                         *)
(* JavaScript runs handlers to completion on one thread.  Every action     *)
(* below is one run-to-completion segment: an event handler up to its      *)
(* first await, or the continuation of an await.  A continuation that was  *)
(* queued as a microtask (the await inside playAudio) runs before any      *)
(* further task, which the variable microtasks enforces.                   *)
(*                                                                         *)
(* An AudioBufferSourceNode dispatches its `ended` event when it stops     *)
(* playing, whether the buffer ran out or stop() was called on it; the     *)
(* event is queued as a task, so the onended handler of audio.ts runs      *)
(* later, not inside stop().                                               *)
(***************************************************************************)
EXTENDS Integers, Sequences, FiniteSets, TLC

\* ------------------------------------------------------------------ bounds
MaxCalls == 2      \* narration requests / playAudio calls alive at a time
MaxCycles == 2     \* submit cycles accepted in a run
MaxTime == 2       \* last clock value Date.now() may reach
MaxBytes == 4      \* longest payload given to decodeAudioData

Slots == 1..MaxCalls

\* --------------------------------------------------------------- constants
FallbackQuestion == "Could not generate a question."
ErrorFeedback == "Error validating answer"

Questions == {"Q1"}
GeneratorResults == Questions \cup {FallbackQuestion}
EvaluatorResults == {[feedback |-> "Good", score |-> 8],
                     [feedback |-> ErrorFeedback, score |-> 0]}

\* What the user can type: texts are sequences of characters.
InputTexts == {<<" ">>, <<"a">>}

\* Outcomes of one playAudio call: the payload decodes; atob or getContext
\* throws before the await; decodeAudioData rejects (odd or zero byte length).
PayloadKinds == {"ok", "syncFail", "asyncFail"}

\* Byte values a payload is made of, and the payloads decoded on their own.
ByteValues == {0, 1, 127, 128, 255}
Payloads == UNION {[1..n -> ByteValues] : n \in 0..MaxBytes}

VARIABLES
    \* ---- InterviewSession (React state of the last committed render)
    mounted,         \* the component is mounted (AppStep.INTERVIEW)
    messages,        \* the transcript
    inputText,
    isLoading,
    isPlaying,
    startPc,         \* startInterview: "gen" | "done" | "threw" | "off"
    sendPc,          \* handleSendMessage: "idle" | "eval" | "gen"
    sendClosure,     \* what the running handleSendMessage closed over
                     \* (NoClosure while none is running)
    now,             \* Date.now()
    ev,              \* what the last step was: "sendRejected" (handleSendMessage
                     \* returned at its guard), "sendAccepted" (it went on),
                     \* "threw" (it left through catch); "cbNatural", "cbStop",
                     \* "cbSuperseded" (the onended handler called the onEnded
                     \* of a source that had ended by itself, by stop(), by a
                     \* later playAudio), "cbFailed" (playAudio's catch called
                     \* onEnded); "stopCall" (a caller called stop());
                     \* "speechNull" (generateSpeech returned null);
                     \* "decoded", "decodeRejected" (decodeAudioData
                     \* resolved, rejected); else "step"
    \* ---- AudioService
    currentSource,   \* 0 is null, else the slot of the source node
    st,              \* per slot: where its narration request / source is
    halt,            \* per slot: why its source stopped sounding
    microtasks,      \* playAudio calls suspended at `await decodeAudioData`
    turnOf,          \* per slot: the transcript position of the message whose
                     \* text the narration request was made for (0: none)
    clicked,         \* the transcript position of the message whose Read
                     \* Aloud button the last step clicked (0: no click)
    \* ---- decodeAudioData on its own
    data,            \* the Uint8Array passed in, a sequence of bytes
    channelData      \* the samples written, as numerators over 32768

compVars == <<mounted, messages, inputText, isLoading, isPlaying, startPc,
              sendPc, sendClosure, now>>
audioVars == <<currentSource, st, halt, microtasks, turnOf>>
decVars == <<data, channelData>>
vars == <<mounted, messages, inputText, isLoading, isPlaying, startPc,
          sendPc, sendClosure, now, ev,
          currentSource, st, halt, microtasks, turnOf, clicked,
          data, channelData>>

\* ------------------------------------------------------------ AudioService
\* A slot holds one narration request from generateSpeech to the end of its
\* playAudio call and source node; after that nothing of it is left and the
\* slot is free again.  Slot states: "none" free; "req" generateSpeech
\* outstanding; "decOk" / "decBad" playAudio suspended at the await with a
\* resolved / rejected decode; "playing" the source sounds; "endq" the
\* source has stopped and its ended event is queued.
SlotStates == {"none", "req", "decOk", "decBad", "playing", "endq"}
HaltCauses == {"none", "natural", "stop", "superseded"}

Sounding == {r \in Slots : st[r] = "playing"}
FreeSlots == {r \in Slots : st[r] = "none"}
FreeSlot == CHOOSE r \in FreeSlots : \A q \in FreeSlots : r <= q

\* A React state setter does nothing once the component is unmounted.
SetIsPlaying(v) == IF mounted THEN v ELSE isPlaying

\* this.currentSource.stop(): a playing source stops and queues `ended`.
StopSt == IF currentSource # 0 /\ st[currentSource] = "playing"
          THEN [st EXCEPT ![currentSource] = "endq"]
          ELSE st
StopHalt(cause) == IF currentSource # 0 /\ st[currentSource] = "playing"
                   THEN [halt EXCEPT ![currentSource] = cause]
                   ELSE halt

\* turnOf once the held source has been stopped: a source that no longer
\* sounds narrates no turn.
StopTurn == IF currentSource # 0 /\ st[currentSource] = "playing"
            THEN [turnOf EXCEPT ![currentSource] = 0]
            ELSE turnOf

\* A stop that also drops the playAudio calls suspended at their await.
AudioStopCancels(cause) ==
    /\ currentSource' = 0
    /\ st' = StopSt
    /\ halt' = StopHalt(cause)
    /\ microtasks' = <<>>

\* stop(): the effect on the service's own state.
AudioStop(cause) ==
    /\ currentSource' = 0
    /\ st' = StopSt
    /\ halt' = StopHalt(cause)
    /\ UNCHANGED microtasks

\* What playAudio's source.onended handler leaves in this.currentSource.
OnEndedHandle(r) == 0

\* An onended handler that clears the handle but forgets `onEnded()`.
OnEndedSkipped(r) == FALSE

\* Whether playAudio's onended handler calls the onEnded it was given.
OnEndedCalls(r) == TRUE

CbTag(cause) == CASE cause = "natural" -> "cbNatural"
                  [] cause = "stop" -> "cbStop"
                  [] cause = "superseded" -> "cbSuperseded"

\* playAudio(base64Audio, onEnded) up to its await, for slot r: this.stop(),
\* then getContext / decodeBase64 / decodeAudioData.  A throw before the
\* await is caught at once and calls onEnded.
PlayAudio(r, kind) ==
    /\ currentSource' = 0
    /\ halt' = StopHalt("superseded")
    /\ IF kind = "syncFail"
       THEN /\ st' = [StopSt EXCEPT ![r] = "none"]
            /\ turnOf' = [StopTurn EXCEPT ![r] = 0]
            /\ isPlaying' = SetIsPlaying(FALSE)
            /\ ev' = "cbFailed"
            /\ UNCHANGED microtasks
       ELSE /\ st' = [StopSt EXCEPT ![r] = IF kind = "ok" THEN "decOk" ELSE "decBad"]
            /\ microtasks' = Append(microtasks, r)
            /\ turnOf' = StopTurn
            /\ ev' = "step"
            /\ UNCHANGED isPlaying

\* The continuation of playAudio after `await decodeAudioData(...)`.
PlayAudioResume ==
    /\ clicked' = 0
    /\ UNCHANGED decVars
    /\ microtasks # <<>>
    /\ LET r == Head(microtasks) IN
        /\ microtasks' = Tail(microtasks)
        /\ \/ /\ st[r] = "decOk"
              /\ currentSource' = r
              /\ st' = [st EXCEPT ![r] = "playing"]
              /\ ev' = "step"
              /\ UNCHANGED <<isPlaying, turnOf>>
           \/ /\ st[r] = "decBad"
              /\ st' = [st EXCEPT ![r] = "none"]
              /\ turnOf' = [turnOf EXCEPT ![r] = 0]
              /\ isPlaying' = SetIsPlaying(FALSE)
              /\ ev' = "cbFailed"
              /\ UNCHANGED currentSource
    /\ UNCHANGED <<mounted, messages, inputText, isLoading, startPc, sendPc,
                   sendClosure, now, halt>>

\* The buffer ran out: the source stops sounding and queues `ended`.
NaturalEnd ==
    /\ clicked' = 0
    /\ UNCHANGED decVars
    /\ \E r \in Slots :
        /\ st[r] = "playing"
        /\ st' = [st EXCEPT ![r] = "endq"]
        /\ halt' = [halt EXCEPT ![r] = "natural"]
        /\ turnOf' = [turnOf EXCEPT ![r] = 0]
    /\ ev' = "step"
    /\ UNCHANGED <<compVars, currentSource, microtasks>>

\* source.onended of slot r runs (a task: no microtask is pending).
SourceEnded ==
    /\ clicked' = 0
    /\ UNCHANGED decVars
    /\ microtasks = <<>>
    /\ \E r \in Slots :
        /\ st[r] = "endq"
        /\ st' = [st EXCEPT ![r] = "none"]
        /\ halt' = [halt EXCEPT ![r] = "none"]
        /\ turnOf' = [turnOf EXCEPT ![r] = 0]
        /\ currentSource' = OnEndedHandle(r)
        /\ IF OnEndedCalls(r)
           THEN /\ isPlaying' = SetIsPlaying(FALSE)
                /\ ev' = CbTag(halt[r])
           ELSE /\ ev' = "step"
                /\ UNCHANGED isPlaying
    /\ UNCHANGED <<mounted, messages, inputText, isLoading, startPc, sendPc,
                   sendClosure, now, microtasks>>

\* ---- the service driven directly by a caller (no component mounted)
ClientPlayAudio ==
    /\ clicked' = 0
    /\ UNCHANGED decVars
    /\ FreeSlots # {}
    /\ \E kind \in PayloadKinds : PlayAudio(FreeSlot, kind)
    /\ UNCHANGED <<mounted, messages, inputText, isLoading, startPc, sendPc,
                   sendClosure, now>>

ClientStop ==
    /\ clicked' = 0
    /\ UNCHANGED decVars
    /\ AudioStop("stop")
    /\ turnOf' = StopTurn
    /\ ev' = "stopCall"
    /\ UNCHANGED compVars

NoClosure == [userId |-> 0, messages |-> <<>>, isPlaying |-> FALSE]

InitAudioVars ==
    /\ currentSource = 0
    /\ st = [r \in Slots |-> "none"]
    /\ halt = [r \in Slots |-> "none"]
    /\ microtasks = <<>>
    /\ turnOf = [r \in Slots |-> 0]
    /\ clicked = 0
    /\ data = <<>>
    /\ channelData = <<>>

InitAudio ==
    /\ mounted = FALSE
    /\ messages = <<>>
    /\ inputText = <<>>
    /\ isLoading = FALSE
    /\ isPlaying = FALSE
    /\ startPc = "off"
    /\ sendPc = "idle"
    /\ sendClosure = NoClosure
    /\ now = 0
    /\ ev = "init"
    /\ InitAudioVars

NextAudio ==
    \/ ClientPlayAudio
    \/ ClientStop
    \/ PlayAudioResume
    \/ NaturalEnd
    \/ SourceEnded

SpecAudio == InitAudio /\ [][NextAudio]_vars

\* --------------------------------------------------------- decodeAudioData
\* Element i of a Uint16Array over the bytes: no sign.
Uint16At(d, i) == d[2 * i - 1] + 256 * d[2 * i]

\* Element i of `new Int16Array(data.buffer)`: two bytes, low byte first,
\* read as a signed 16-bit integer.
Int16At(d, i) ==
    LET u == d[2 * i - 1] + 256 * d[2 * i]
    IN IF u >= 32768 THEN u - 65536 ELSE u

\* dataInt16[i] / 32768.0, kept as the fraction num / den (the quotient is
\* exact in a Float32Array).
Normalize(v) == [num |-> v, den |-> 32768]

\* decodeAudioData(data, ctx) resolves: the buffer of frameCount samples.
DecodeResolves ==
    /\ ev = "init"
    /\ Len(data) % 2 = 0
    /\ Len(data) \div 2 > 0
    /\ channelData' = [i \in 1..(Len(data) \div 2) |-> Normalize(Int16At(data, i))]
    /\ ev' = "decoded"
    /\ UNCHANGED <<compVars, audioVars, clicked, data>>

\* decodeAudioData(data, ctx) rejects: `new Int16Array` throws on an odd
\* byte length, ctx.createBuffer throws on a length of 0 frames.
DecodeRejects ==
    /\ ev = "init"
    /\ Len(data) % 2 # 0 \/ Len(data) \div 2 = 0
    /\ ev' = "decodeRejected"
    /\ UNCHANGED <<compVars, audioVars, clicked, data, channelData>>

InitDecode ==
    /\ mounted = FALSE
    /\ messages = <<>>
    /\ inputText = <<>>
    /\ isLoading = FALSE
    /\ isPlaying = FALSE
    /\ startPc = "off"
    /\ sendPc = "idle"
    /\ sendClosure = NoClosure
    /\ now = 0
    /\ ev = "init"
    /\ currentSource = 0
    /\ st = [r \in Slots |-> "none"]
    /\ halt = [r \in Slots |-> "none"]
    /\ microtasks = <<>>
    /\ turnOf = [r \in Slots |-> 0]
    /\ clicked = 0
    /\ data \in Payloads
    /\ channelData = <<>>

NextDecode ==
    \/ DecodeResolves
    \/ DecodeRejects

SpecDecode == InitDecode /\ [][NextDecode]_vars

\* --------------------------------------------------------- InterviewSession
IsSpace(c) == c = " "

\* String.prototype.trim on a sequence of characters.
RECURSIVE TrimStart(_)
TrimStart(t) == IF t # <<>> /\ IsSpace(Head(t)) THEN TrimStart(Tail(t)) ELSE t

RECURSIVE TrimEnd(_)
TrimEnd(t) == IF t # <<>> /\ IsSpace(t[Len(t)])
              THEN TrimEnd(SubSeq(t, 1, Len(t) - 1))
              ELSE t

\* A guard that tests the raw text: no trim.
NoTrim(t) == t

Trim(t) == TrimEnd(TrimStart(t))

\* A Message; the optional fields feedback and score are a set that is
\* empty while the field is absent.
Message(id, role, text) ==
    [id |-> id, role |-> role, text |-> text, feedback |-> {}, score |-> {}]

InitId == 0      \* the id 'init' of the first question
StartTime == 1   \* Date.now() when the component mounts

SetIsLoading(v) == IF mounted THEN v ELSE isLoading
SetMessages(m) == IF mounted THEN m ELSE messages

\* A feedback update that attaches nothing.
AttachFeedbackNone(prev, id, validation) == prev

\* A feedback update that keeps only the evaluated message (filter for map).
AttachFeedbackFiltered(prev, id, validation) ==
    LET hit == CHOOSE i \in 1..Len(prev) : prev[i].id = id
    IN <<[prev[hit] EXCEPT !.feedback = {validation.feedback},
                           !.score = {validation.score}]>>

\* The feedback update: prev.map(m => m.id === userMsg.id ? {...m, ...} : m)
AttachFeedback(prev, id, validation) ==
    [i \in 1..Len(prev) |->
        IF prev[i].id = id
        THEN [prev[i] EXCEPT !.feedback = {validation.feedback},
                             !.score = {validation.score}]
        ELSE prev[i]]

UserTurns == {i \in 1..Len(messages) : messages[i].role = "user"}

\* Slots that handlers already running will still need for a narration.
Reserved == (IF startPc = "gen" THEN 1 ELSE 0)
            + (IF sendPc # "idle" /\ ~sendClosure.isPlaying THEN 1 ELSE 0)

\* A textarea that stays enabled while loading.
TextareaNeverDisabled == FALSE

\* disabled={isLoading} on the textarea.
TextareaDisabled == isLoading

\* handlePlayAudio(text) as the render that created it sees isPlaying.
HandlePlayAudio(text, closureIsPlaying) ==
    IF closureIsPlaying
    THEN /\ AudioStop("stop")
         /\ isPlaying' = SetIsPlaying(FALSE)
    ELSE /\ isPlaying' = SetIsPlaying(TRUE)
         /\ st' = [st EXCEPT ![FreeSlot] = "req"]
         /\ UNCHANGED <<currentSource, halt, microtasks>>

\* The prior questions startInterview passes to the generator: `[]`.
StartPrevQuestions == <<>>

IsAi(m) == m.role = "ai"

\* A prior-questions list made of every message's text: map without filter.
PrevQuestionsUnfiltered ==
    [i \in 1..Len(sendClosure.messages) |-> sendClosure.messages[i].text]

\* The prior questions handleSendMessage passes to the generator:
\* messages.filter(m => m.role === 'ai').map(m => m.text), on the messages
\* of the render the handler was created in.
PrevQuestions ==
    LET ai == SelectSeq(sendClosure.messages, IsAi)
    IN [i \in 1..Len(ai) |-> ai[i].text]

\* Which message the narration request that handlePlayAudio makes is for:
\* a position in the transcript of the mounted session (none once the
\* session is unmounted and its transcript gone).
NoteTurn(i, closureIsPlaying) ==
    turnOf' = IF closureIsPlaying THEN StopTurn
              ELSE IF mounted THEN [turnOf EXCEPT ![FreeSlot] = i]
              ELSE turnOf

\* startInterview after `await generateInterviewQuestion(selectedSkills, [])`.
StartGenResolves ==
    /\ clicked' = 0
    /\ UNCHANGED decVars
    /\ microtasks = <<>>
    /\ startPc = "gen"
    /\ \E question \in GeneratorResults :
        /\ messages' = SetMessages(<<Message(InitId, "ai", question)>>)
        /\ isLoading' = SetIsLoading(FALSE)
        /\ HandlePlayAudio(question, FALSE)
        /\ NoteTurn(1, FALSE)
    /\ startPc' = "done"
    /\ ev' = "step"
    /\ UNCHANGED <<mounted, inputText, sendPc, sendClosure, now>>

\* generateInterviewQuestion rejects: startInterview has no try block.
StartGenThrows ==
    /\ clicked' = 0
    /\ UNCHANGED decVars
    /\ microtasks = <<>>
    /\ startPc = "gen"
    /\ startPc' = "threw"
    /\ ev' = "step"
    /\ UNCHANGED <<mounted, messages, inputText, isLoading, isPlaying, sendPc,
                   sendClosure, now, audioVars>>

\* onChange of the textarea.
TypeInput ==
    /\ clicked' = 0
    /\ UNCHANGED decVars
    /\ microtasks = <<>>
    /\ mounted
    /\ ~TextareaDisabled
    /\ \E t \in (InputTexts \cup {<<>>}) \ {inputText} : inputText' = t
    /\ ev' = "step"
    /\ UNCHANGED <<mounted, messages, isLoading, isPlaying, startPc, sendPc,
                   sendClosure, now, audioVars>>

\* handleSendMessage up to `await validateAnswer(...)`.
HandleSendMessage ==
    /\ clicked' = 0
    /\ UNCHANGED decVars
    /\ microtasks = <<>>
    /\ mounted
    /\ \/ /\ Trim(inputText) = <<>>
          /\ ev' = "sendRejected"
          /\ UNCHANGED <<compVars, audioVars>>
       \/ /\ Trim(inputText) # <<>>
          /\ Len(messages) > 0
          /\ isLoading \/ Cardinality(UserTurns) < MaxCycles
          /\ isPlaying \/ FreeSlots # {}
          /\ \E d \in 0..(MaxTime - now) :
              /\ now' = now + d
              /\ sendClosure' = [userId |-> now + d, messages |-> messages,
                                 isPlaying |-> isPlaying]
              /\ messages' = Append(messages, Message(now + d, "user", inputText))
          /\ inputText' = <<>>
          /\ isLoading' = TRUE
          /\ sendPc' = "eval"
          /\ ev' = "sendAccepted"
          /\ UNCHANGED <<mounted, isPlaying, startPc, audioVars>>

\* An evaluation step that clears isLoading before the generator call.
EvalResolvesClearsBusy ==
    /\ clicked' = 0
    /\ UNCHANGED decVars
    /\ microtasks = <<>>
    /\ sendPc = "eval"
    /\ \E validation \in EvaluatorResults :
        messages' = SetMessages(AttachFeedback(messages, sendClosure.userId, validation))
    /\ isLoading' = SetIsLoading(FALSE)
    /\ sendPc' = "gen"
    /\ ev' = "step"
    /\ UNCHANGED <<mounted, inputText, isPlaying, startPc,
                   sendClosure, now, audioVars>>

\* handleSendMessage after `await validateAnswer(...)`, up to
\* `await generateInterviewQuestion(...)`.
EvalResolves ==
    /\ clicked' = 0
    /\ UNCHANGED decVars
    /\ microtasks = <<>>
    /\ sendPc = "eval"
    /\ \E validation \in EvaluatorResults :
        messages' = SetMessages(AttachFeedback(messages, sendClosure.userId, validation))
    /\ sendPc' = "gen"
    /\ ev' = "step"
    /\ UNCHANGED <<mounted, inputText, isLoading, isPlaying, startPc,
                   sendClosure, now, audioVars>>

\* validateAnswer rejects and there is no finally block to clear isLoading.
EvalThrowsNoFinally ==
    /\ clicked' = 0
    /\ UNCHANGED decVars
    /\ microtasks = <<>>
    /\ sendPc = "eval"
    /\ sendPc' = "idle"
    /\ sendClosure' = NoClosure
    /\ ev' = "threw"
    /\ UNCHANGED <<mounted, messages, inputText, isLoading, isPlaying, startPc,
                   now, audioVars>>

\* validateAnswer rejects: catch, then finally.
EvalThrows ==
    /\ clicked' = 0
    /\ UNCHANGED decVars
    /\ microtasks = <<>>
    /\ sendPc = "eval"
    /\ isLoading' = SetIsLoading(FALSE)
    /\ sendPc' = "idle"
    /\ sendClosure' = NoClosure
    /\ ev' = "threw"
    /\ UNCHANGED <<mounted, messages, inputText, isPlaying, startPc, now,
                   audioVars>>

\* handleSendMessage after `await generateInterviewQuestion(...)`.
GenResolves ==
    /\ clicked' = 0
    /\ UNCHANGED decVars
    /\ microtasks = <<>>
    /\ sendPc = "gen"
    /\ \E nextQuestion \in GeneratorResults, d \in 0..(MaxTime - now) :
        /\ now' = now + d
        /\ messages' = SetMessages(Append(messages, Message(now + d + 1, "ai", nextQuestion)))
        /\ HandlePlayAudio(nextQuestion, sendClosure.isPlaying)
        /\ NoteTurn(Len(messages) + 1, sendClosure.isPlaying)
    /\ isLoading' = SetIsLoading(FALSE)
    /\ sendPc' = "idle"
    /\ sendClosure' = NoClosure
    /\ ev' = "step"
    /\ UNCHANGED <<mounted, inputText, startPc>>

\* generateInterviewQuestion rejects inside the try: catch, then finally.
GenThrows ==
    /\ clicked' = 0
    /\ UNCHANGED decVars
    /\ microtasks = <<>>
    /\ sendPc = "gen"
    /\ isLoading' = SetIsLoading(FALSE)
    /\ sendPc' = "idle"
    /\ sendClosure' = NoClosure
    /\ ev' = "threw"
    /\ UNCHANGED <<mounted, messages, inputText, isPlaying, startPc, now,
                   audioVars>>

\* The Read Aloud / Stop Speaking button of an AI message.
ClickReadAloud ==
    /\ UNCHANGED decVars
    /\ microtasks = <<>>
    /\ mounted
    /\ isPlaying \/ Cardinality(FreeSlots) > Reserved
    /\ \E i \in 1..Len(messages) :
        /\ messages[i].role = "ai"
        /\ HandlePlayAudio(messages[i].text, isPlaying)
        /\ NoteTurn(i, isPlaying)
        /\ clicked' = i
    /\ ev' = "step"
    /\ UNCHANGED <<mounted, messages, inputText, isLoading, startPc, sendPc,
                   sendClosure, now>>

\* A null branch that leaves the indicator as it is.
AfterNullSpeechKept == isPlaying

\* isPlaying after the else branch of handlePlayAudio: setIsPlaying(false).
AfterNullSpeech == SetIsPlaying(FALSE)

\* handlePlayAudio after `await generateSpeech(text)`.
SpeechResolves ==
    /\ clicked' = 0
    /\ UNCHANGED decVars
    /\ microtasks = <<>>
    /\ \E r \in Slots :
        /\ st[r] = "req"
        /\ \/ /\ st' = [st EXCEPT ![r] = "none"]
              /\ turnOf' = [turnOf EXCEPT ![r] = 0]
              /\ isPlaying' = AfterNullSpeech
              /\ ev' = "speechNull"
              /\ UNCHANGED <<currentSource, halt, microtasks>>
           \/ \E kind \in PayloadKinds : PlayAudio(r, kind)
    /\ UNCHANGED <<mounted, messages, inputText, isLoading, startPc, sendPc,
                   sendClosure, now>>

\* onEndSession = resetApp: setStep(UPLOAD) unmounts the component, and its
\* React state goes with it (shown here as the useState initial values).
\* Handlers that are suspended at an await keep running; the singleton
\* audioService is not touched.
EndSession ==
    /\ clicked' = 0
    /\ UNCHANGED decVars
    /\ microtasks = <<>>
    /\ mounted
    /\ mounted' = FALSE
    /\ messages' = <<>>
    /\ inputText' = <<>>
    /\ isLoading' = FALSE
    /\ isPlaying' = FALSE
    /\ turnOf' = [r \in Slots |-> 0]
    /\ ev' = "step"
    /\ UNCHANGED <<startPc, sendPc, sendClosure, now, currentSource, st, halt,
                   microtasks>>

\* The component has mounted and its effect has run startInterview up to
\* `await generateInterviewQuestion(selectedSkills, [])`.
Init ==
    /\ mounted = TRUE
    /\ messages = <<>>
    /\ inputText = <<>>
    /\ isLoading = TRUE
    /\ isPlaying = FALSE
    /\ startPc = "gen"
    /\ sendPc = "idle"
    /\ sendClosure = NoClosure
    /\ now = StartTime
    /\ ev = "init"
    /\ InitAudioVars

Next ==
    \/ StartGenResolves
    \/ StartGenThrows
    \/ TypeInput
    \/ HandleSendMessage
    \/ EvalResolves
    \/ EvalThrows
    \/ GenResolves
    \/ GenThrows
    \/ ClickReadAloud
    \/ SpeechResolves
    \/ EndSession
    \/ PlayAudioResume
    \/ NaturalEnd
    \/ SourceEnded

Spec == Init /\ [][Next]_vars

\* --------------------------------------------- claims on InterviewSession
\* C2: handleSendMessage invoked while isLoading is true is rejected: it
\* appends no turn, changes no turn and starts no second round-trip.
C2_BusySubmitRejected ==
    [][(isLoading /\ ev' \in {"sendRejected", "sendAccepted"}) =>
          /\ ev' = "sendRejected"
          /\ messages' = messages
          /\ sendPc' = sendPc
          /\ sendClosure' = sendClosure]_vars

C2_Witness == mounted /\ isLoading /\ sendPc # "idle" /\ ev = "sendRejected"

\* C3: while the session is mounted the transcript is append-only: no step
\* removes or reorders a turn or changes a turn's id, speaker or text.
C3_TranscriptAppendOnly ==
    [][mounted' =>
          /\ Len(messages') >= Len(messages)
          /\ \A i \in 1..Len(messages) :
                /\ messages'[i].id = messages[i].id
                /\ messages'[i].role = messages[i].role
                /\ messages'[i].text = messages[i].text]_vars

C3_Witness ==
    /\ mounted
    /\ Len(messages) = 3
    /\ messages[2].role = "user"
    /\ messages[2].feedback # {}
    /\ messages[3].role = "ai"

\* C4: whenever a submit cycle ends, also when validateAnswer or
\* generateInterviewQuestion threw inside it, isLoading is false afterwards.
C4_CycleExitClearsBusy ==
    [][(sendPc # "idle" /\ sendPc' = "idle") => ~isLoading']_vars

C4_Witness == mounted /\ ev = "threw" /\ sendPc = "idle" /\ ~isLoading

\* C5: isLoading is never stuck: once no operation that set it is still
\* running (startInterview included, also when the generator threw),
\* isLoading is false.
C5_BusyNeverStuck ==
    (startPc # "gen" /\ sendPc = "idle") => ~isLoading

\* C6: ending the session stops the active playback: right after End
\* Session no audio source is sounding.
C6_EndStopsPlayback ==
    [][(mounted /\ ~mounted') => Sounding' = {}]_vars

\* C7: once the session is ended, results of calls still in flight change
\* no transcript and start no new audio playback.
C7_EndedDiscardsResults ==
    [][~mounted => (messages' = messages /\ Sounding' \subseteq Sounding)]_vars

\* ------------------------------------------------- claims on AudioService
\* C1: after any interleaving of playAudio and stop calls at most one audio
\* source is sounding at any instant.
C1_AtMostOneSounding == Cardinality(Sounding) <= 1

C9_SupersededSilent == ev # "cbSuperseded"

\* C10: when playAudio fails, its onEnded is invoked and afterwards the
\* service holds no handle and nothing is sounding.
C10_FailureFreesSlot ==
    [][ev' = "cbFailed" => (currentSource' = 0 /\ Sounding' = {})]_vars

\* ------------------------------------------------------ claims on narration
\* C11: a Read Aloud request for AI turn Y made while the audio of another
\* turn X is sounding starts a narration of Y; it is not taken as a stop.
C11_OtherTurnStartsNarration ==
    [][(clicked' # 0 /\ \E r \in Sounding : turnOf[r] # clicked') =>
          \E q \in Slots : /\ st[q] = "none"
                           /\ st'[q] = "req"
                           /\ turnOf'[q] = clicked']_vars

\* C12: a Read Aloud click on turn X while X is the active playback (the
\* indicator is set and X's audio is sounding) stops the audio and clears
\* the indicator; a click on X while the indicator is clear starts a
\* narration of X and sets the indicator.
C12_ToggleStopsThenStarts ==
    [][/\ (clicked' # 0 /\ isPlaying
            /\ \E r \in Sounding : turnOf[r] = clicked') =>
               (Sounding' = {} /\ ~isPlaying')
       /\ (clicked' # 0 /\ ~isPlaying) =>
               /\ isPlaying'
               /\ \E q \in Slots : /\ st[q] = "none"
                                    /\ st'[q] = "req"
                                    /\ turnOf'[q] = clicked']_vars

\* C13: while the session is mounted the indicator isPlaying is set exactly
\* while audio is sounding.  Read here in the claim's favour: the indicator
\* may also be set while a narration it was set for is still being
\* synthesised or decoded.
C13_IndicatorMatchesSound ==
    mounted =>
        /\ Sounding # {} => isPlaying
        /\ isPlaying =>
              (Sounding # {} \/ \E r \in Slots : st[r] \in {"req", "decOk", "decBad"})

\* C14: when the next question arrives in a submit cycle, an AI turn with it
\* is appended, a narration of that turn is requested whatever isPlaying was
\* when the answer was submitted, and isLoading is cleared.
C14_NextQuestionNarrated ==
    [][(mounted /\ sendPc = "gen" /\ sendPc' = "idle" /\ ev' # "threw") =>
          /\ Len(messages') = Len(messages) + 1
          /\ messages'[Len(messages')].role = "ai"
          /\ ~isLoading'
          /\ \E q \in Slots : /\ st[q] = "none"
                               /\ st'[q] = "req"
                               /\ turnOf'[q] = Len(messages')]_vars

\* C15: when startInterview ends, the transcript is exactly one AI turn
\* whose text is the generator's result or the fallback text, isLoading is
\* false and a narration of that turn has been requested.
C15_StartYieldsFirstTurn ==
    [][(mounted /\ startPc = "gen" /\ startPc' # "gen") =>
          /\ Len(messages') = 1
          /\ messages'[1].role = "ai"
          /\ messages'[1].text \in GeneratorResults
          /\ ~isLoading'
          /\ \E q \in Slots : st'[q] = "req" /\ turnOf'[q] = 1]_vars

\* ------------------------------------------------- claims on a submit cycle
\* C16: a submit cycle that runs to its end appends one USER turn with the
\* id of the submission, attaches the evaluator's feedback and score to it,
\* appends one AI turn with the next question and clears isLoading: the
\* transcript has grown by exactly two turns since the submission.
C16_CycleAddsTwoTurns ==
    [][(mounted /\ sendPc = "gen" /\ sendPc' = "idle" /\ ev' # "threw") =>
          LET n == Len(sendClosure.messages) IN
          /\ Len(messages') = n + 2
          /\ messages'[n + 1].role = "user"
          /\ messages'[n + 1].id = sendClosure.userId
          /\ \E k \in 1..Len(messages'[n + 1].text) :
                messages'[n + 1].text[k] # " "
          /\ \E v \in EvaluatorResults :
                /\ messages'[n + 1].feedback = {v.feedback}
                /\ messages'[n + 1].score = {v.score}
          /\ messages'[n + 2].role = "ai"
          /\ messages'[n + 2].text \in GeneratorResults
          /\ sendPc' = "idle"
          /\ ~isLoading']_vars

C16_Witness ==
    /\ mounted
    /\ sendPc = "idle"
    /\ ~isLoading
    /\ Len(messages) = 3
    /\ messages[1].id = InitId
    /\ messages[2].feedback = {"Good"}
    /\ messages[2].score = {8}
    /\ messages[3].text \in Questions

\* C17: when the evaluator call fails in a submit cycle, the submitted USER
\* turn gets feedback "Error validating answer" and score 0 and the cycle
\* goes on to the next question: no step ends the evaluation without
\* attaching an evaluation and moving on to the generator call.
C17_EvaluatorFailureGoesOn ==
    [][(mounted /\ sendPc = "eval" /\ sendPc' # "eval") =>
          LET n == Len(sendClosure.messages) IN
          /\ sendPc' = "gen"
          /\ \E v \in EvaluatorResults :
                /\ messages'[n + 1].feedback = {v.feedback}
                /\ messages'[n + 1].score = {v.score}]_vars

\* C18: handleSendMessage on an input whose trimmed text is empty changes
\* nothing: transcript, isLoading, input text, playback state and the calls
\* in flight are as before.
C18_BlankSubmitNoMutation ==
    [][(/\ ev' \in {"sendRejected", "sendAccepted"}
        /\ \A k \in 1..Len(inputText) : inputText[k] = " ") =>
          /\ ev' = "sendRejected"
          /\ compVars' = compVars
          /\ audioVars' = audioVars]_vars

C18_Witness == mounted /\ ev = "sendRejected" /\ inputText = <<" ">> /\ ~isLoading

\* ------------------------------------------- further claims on AudioService
\* C19: stop() called while the service holds no handle is a no-op: no
\* onEnded is called, the handle stays null, no source changes state, and a
\* further stop() changes nothing either.
C19_IdleStopNoOp ==
    [][(ev' = "stopCall" /\ currentSource = 0) =>
          /\ audioVars' = audioVars
          /\ currentSource' = 0
          /\ isPlaying' = isPlaying]_vars

C19_Witness ==
    /\ ev = "stopCall"
    /\ currentSource = 0
    /\ \A r \in Slots : st[r] = "none" /\ halt[r] = "none"

\* C20 as stated: decoding a payload of 2*n bytes, n >= 0, yields exactly n
\* samples, each the signed 16-bit little-endian value over 32768 and so
\* within [-1, 1]; an all-zero payload yields zero samples.
C20_DecodeYieldsSamples ==
    (ev \in {"decoded", "decodeRejected"} /\ Len(data) % 2 = 0) =>
        /\ ev = "decoded"
        /\ Len(channelData) * 2 = Len(data)
        /\ \A i \in 1..Len(channelData) :
              /\ channelData[i].den = 32768
              /\ channelData[i].num \in -32768..32767
              /\ (channelData[i].num - (data[2 * i - 1] + 256 * data[2 * i])) % 65536 = 0
              /\ -channelData[i].den <= channelData[i].num
              /\ channelData[i].num <= channelData[i].den
        /\ (\A k \in 1..Len(data) : data[k] = 0) =>
              \A i \in 1..Len(channelData) : channelData[i].num = 0

\* C20 amended: the same for a payload of 2*n bytes with n >= 1; the empty
\* payload is rejected.
C20_DecodeNonEmpty ==
    /\ (ev \in {"decoded", "decodeRejected"} /\ Len(data) % 2 = 0 /\ Len(data) > 0) =>
         /\ ev = "decoded"
         /\ Len(channelData) * 2 = Len(data)
         /\ \A i \in 1..Len(channelData) :
               /\ channelData[i].den = 32768
               /\ channelData[i].num \in -32768..32767
               /\ (channelData[i].num - (data[2 * i - 1] + 256 * data[2 * i])) % 65536 = 0
               /\ -channelData[i].den <= channelData[i].num
               /\ channelData[i].num <= channelData[i].den
         /\ (\A k \in 1..Len(data) : data[k] = 0) =>
               \A i \in 1..Len(channelData) : channelData[i].num = 0
    /\ (ev \in {"decoded", "decodeRejected"} /\ Len(data) = 0) => ev = "decodeRejected"

C20_Witness ==
    /\ ev = "decoded"
    /\ data = <<0, 128, 255, 127>>
    /\ channelData = <<[num |-> -32768, den |-> 32768], [num |-> 32767, den |-> 32768]>>

\* --------------------------------------------- claims on the session's turns
\* C21: whenever the session is mounted, started and not loading, the most
\* recent turn of the transcript is an AI turn.
C21_IdleEndsWithAiTurn ==
    (mounted /\ ~isLoading /\ Len(messages) > 0) =>
        messages[Len(messages)].role = "ai"

\* C22: within a submit cycle isLoading stays set, and no new submission is
\* accepted, until the evaluation and the generation of the next question
\* have both resolved: while the handler is suspended at either await the
\* mounted session is loading, and a submission is accepted only when no
\* cycle is running.
C22_BusyUntilBothResolved ==
    [][/\ (mounted' /\ sendPc' # "idle") => isLoading'
       /\ ev' = "sendAccepted" => (sendPc = "idle" /\ sendPc' = "eval")]_vars

C22_Witness ==
    /\ mounted
    /\ sendPc = "gen"
    /\ isLoading
    /\ messages[Len(messages)].role = "user"
    /\ messages[Len(messages)].feedback # {}
    /\ inputText = <<>>

\* C23: the evaluation result of a submit cycle is attached only to the USER
\* turn that cycle appended.  Checked here on the AI turns: no AI turn ever
\* carries feedback or a score.
C23_NoAiTurnEvaluated ==
    \A i \in 1..Len(messages) :
        messages[i].role = "ai" =>
            (messages[i].feedback = {} /\ messages[i].score = {})

\* C24: every question-generation call gets as prior questions exactly the
\* texts of the AI turns of the transcript at that moment, in transcript
\* order: the empty list for startInterview's call, all earlier questions
\* for the call of a submit cycle.
C24_PriorQuestionsAreAiTurns ==
    LET idx == {i \in 1..Len(messages) : messages[i].role = "ai"} IN
    /\ (mounted /\ startPc = "gen") =>
          (idx = {} /\ Len(StartPrevQuestions) = 0)
    /\ (mounted /\ sendPc = "gen") =>
          /\ Len(PrevQuestions) = Cardinality(idx)
          /\ \A k \in 1..Len(PrevQuestions) :
                \E i \in idx :
                    /\ Cardinality({j \in idx : j <= i}) = k
                    /\ PrevQuestions[k] = messages[i].text

C24_Witness ==
    /\ mounted
    /\ sendPc = "gen"
    /\ Len(messages) = 4
    /\ PrevQuestions = <<"Q1", FallbackQuestion>>

\* C25: when generateSpeech returns null for a narration request, playAudio
\* is not called for it: no source starts, the service is left as it was,
\* and in the mounted session the indicator isPlaying is cleared.
C25_NullSpeechPlaysNothing ==
    [][ev' = "speechNull" =>
          /\ Sounding' = Sounding
          /\ currentSource' = currentSource
          /\ microtasks' = microtasks
          /\ halt' = halt
          /\ \A r \in Slots : st'[r] # st[r] => (st[r] = "req" /\ st'[r] = "none")
          /\ mounted => ~isPlaying']_vars

C25_Witness ==
    /\ mounted
    /\ ev = "speechNull"
    /\ ~isPlaying
    /\ \A r \in Slots : st[r] = "none"

\* C26: whenever an audio source is sounding, the service's currentSource
\* refers to that source (so a following stop() halts it).  Stated on the step
\* the claim singles out: when an ended event is delivered while the handle
\* refers to a source that goes on sounding, the handle is left as it is.
C26_HandleTracksSounding ==
    [][(ev' \in {"cbNatural", "cbStop", "cbSuperseded"}
            /\ currentSource # 0
            /\ st'[currentSource] = "playing") =>
               currentSource' = currentSource]_vars

====
